---- MODULE Spec2Model ----
(***************************************************************************)
(* StrandKit (src/__init__.py): the bake operator HAIRCARD_OT_BakeTextures *)
(* as a state machine.  One behaviour is the life of one operator          *)
(* instance: invoke() once, then modal() once per event the window manager *)
(* delivers, until modal() returns FINISHED or CANCELLED or raises.        *)
(* The scene (materials' node trees, images, render settings, output       *)
(* files) is the state the operator reads and writes.                      *)
(* SwapSpec is the texture swap operator HAIRCARD_OT_SwapTextures: one     *)
(* step is one call of execute() while no bake is running.                 *)
(***************************************************************************)
EXTENDS Integers, Sequences, FiniteSets

(* ---------------------------------------------------------------------- *)
(* Bounds                                                                  *)
(* ---------------------------------------------------------------------- *)

\* most material slots on the source object
MaxSlots == 2

(* ---------------------------------------------------------------------- *)
(* Node trees: nt.nodes is an ordered collection, nt.links a set; an input *)
(* socket carries at most one link.                                        *)
(* ---------------------------------------------------------------------- *)

NoSock == [node |-> 0, sock |-> ""]
Sock(n, s) == [node |-> n, sock |-> s]
NoLink == [from |-> NoSock, to |-> NoSock]
Link(f, t) == [from |-> f, to |-> t]

NoImage == [kind |-> "none", filepath |-> "", key |-> <<"", "", 0>>]
FileImage(p) == [kind |-> "file", filepath |-> p, key |-> <<"", "", 0>>]
\* an image made by bpy.data.images.new: no file behind it; the name is
\* <object>_<material>_<channel>, made unique by a numeric suffix
BakeImage(mat, map, n) == [kind |-> "bake", filepath |-> "", key |-> <<mat, map, n>>]

\* a socket default colour (r, g, b, a) in halves: <<1, 1, 2, 2>> is (0.5, 0.5, 1, 1)
NoColor == <<>>

Node(id, type, inputs, image) ==
    [name |-> id, type |-> type, inputs |-> inputs, image |-> image, color |-> NoColor]

\* Principled BSDF inputs: Blender 4.x names the specular input
\* "Specular IOR Level", earlier versions "Specular"
BsdfInputs4 == {"Base Color", "Metallic", "Roughness", "Specular IOR Level", "Alpha", "Normal"}
BsdfInputs3 == {"Base Color", "Metallic", "Roughness", "Specular", "Alpha", "Normal"}

EmptyTree == [nodes |-> <<>>, links |-> {}]

NodeIds(nt) == {nt.nodes[i].name : i \in 1..Len(nt.nodes)}
NodeById(nt, id) == nt.nodes[CHOOSE i \in 1..Len(nt.nodes) : nt.nodes[i].name = id]

\* a new node takes the first free name and is appended to nt.nodes
FreshId(nt) == CHOOSE k \in 1..(Len(nt.nodes) + 1) :
                  /\ k \notin NodeIds(nt)
                  /\ \A j \in 1..(k - 1) : j \in NodeIds(nt)

NodesNew(nt, type, inputs, image) ==
    [nt EXCEPT !.nodes = Append(@, Node(FreshId(nt), type, inputs, image))]

RECURSIVE DropNode(_, _)
DropNode(ns, id) ==
    IF ns = <<>> THEN <<>>
    ELSE IF Head(ns).name = id THEN DropNode(Tail(ns), id)
    ELSE <<Head(ns)>> \o DropNode(Tail(ns), id)

\* nt.nodes.remove(node): the node goes, and every link at one of its sockets
NodesRemove(nt, id) ==
    [nodes |-> DropNode(nt.nodes, id),
     links |-> {l \in nt.links : l.from.node # id /\ l.to.node # id}]

\* socket.is_linked, socket.links[0] for an input socket
IsLinked(nt, s) == \E l \in nt.links : l.to = s
Links0(nt, s) == CHOOSE l \in nt.links : l.to = s

\* nt.links.new(from_socket, to_socket): a link already at the input is replaced
LinksNew(nt, f, t) ==
    [nt EXCEPT !.links = {l \in @ : l.to # t} \cup {Link(f, t)}]

LinksRemove(nt, l) == [nt EXCEPT !.links = @ \ {l}]

(* ---------------------------------------------------------------------- *)
(* The disk: source texture files, by path                                 *)
(* ---------------------------------------------------------------------- *)

\* os.path.exists(p)
PathExists(p) == p \in {"//tex/color.png", "//tex/spec.png", "//tex/normal.png",
                        "//tex/metal.png", "//tex/locked.png"}
\* shutil.copy(p, dst) succeeds; it raises for a file that exists and cannot be read
CopySucceeds(p) == PathExists(p) /\ p # "//tex/locked.png"


(* ---------------------------------------------------------------------- *)
(* Materials the scene can hold.  A material is its name here              *)
(* (bpy.data.materials keeps names unique); "" is an empty slot (None).    *)
(* ---------------------------------------------------------------------- *)

Mats == {"MatA", "MatB"}
NoMat == ""

\* output <- BSDF; colour and alpha from one image, specular and the normal
\* map from images on disk; roughness and metallic unconnected
TreeStd ==
    [nodes |-> << Node(1, "OUTPUT_MATERIAL", {"Surface"}, NoImage),
                  Node(2, "BSDF_PRINCIPLED", BsdfInputs4, NoImage),
                  Node(3, "TEX_IMAGE", {"Vector"}, FileImage("//tex/color.png")),
                  Node(4, "NORMAL_MAP", {"Color", "Strength"}, NoImage),
                  Node(5, "TEX_IMAGE", {"Vector"}, FileImage("//tex/spec.png")),
                  Node(6, "TEX_IMAGE", {"Vector"}, FileImage("//tex/normal.png")) >>,
     links |-> { Link(Sock(2, "BSDF"), Sock(1, "Surface")),
                 Link(Sock(3, "Color"), Sock(2, "Base Color")),
                 Link(Sock(3, "Alpha"), Sock(2, "Alpha")),
                 Link(Sock(5, "Color"), Sock(2, "Specular IOR Level")),
                 Link(Sock(6, "Color"), Sock(4, "Color")),
                 Link(Sock(4, "Normal"), Sock(2, "Normal")) }]

\* no output node; a pre-4.0 BSDF: metallic from an image on disk, specular
\* from a colour ramp, the normal map from an image node that holds no image
TreeNoOutput ==
    [nodes |-> << Node(1, "BSDF_PRINCIPLED", BsdfInputs3, NoImage),
                  Node(2, "TEX_IMAGE", {"Vector"}, FileImage("//tex/metal.png")),
                  Node(3, "VALTORGB", {"Fac"}, NoImage),
                  Node(4, "NORMAL_MAP", {"Color", "Strength"}, NoImage),
                  Node(5, "TEX_IMAGE", {"Vector"}, NoImage) >>,
     links |-> { Link(Sock(2, "Color"), Sock(1, "Metallic")),
                 Link(Sock(3, "Color"), Sock(1, "Specular")),
                 Link(Sock(5, "Color"), Sock(4, "Color")) }]

\* an output node whose Surface is unconnected; specular from an image whose
\* file is gone, the normal map from an image whose file cannot be read
TreeSurfaceFree ==
    [nodes |-> << Node(1, "OUTPUT_MATERIAL", {"Surface"}, NoImage),
                  Node(2, "BSDF_PRINCIPLED", BsdfInputs4, NoImage),
                  Node(3, "TEX_IMAGE", {"Vector"}, FileImage("//tex/gone.png")),
                  Node(4, "TEX_IMAGE", {"Vector"}, FileImage("//tex/locked.png")),
                  Node(5, "NORMAL_MAP", {"Color", "Strength"}, NoImage) >>,
     links |-> { Link(Sock(3, "Color"), Sock(2, "Specular IOR Level")),
                 Link(Sock(4, "Color"), Sock(5, "Color")) }]

\* two BSDF nodes and two normal-map nodes: the first of each has nothing
\* connected, the second takes metallic / colour from an image on disk
TreeTwoBsdf ==
    [nodes |-> << Node(1, "OUTPUT_MATERIAL", {"Surface"}, NoImage),
                  Node(2, "BSDF_PRINCIPLED", BsdfInputs4, NoImage),
                  Node(3, "BSDF_PRINCIPLED", BsdfInputs4, NoImage),
                  Node(4, "TEX_IMAGE", {"Vector"}, FileImage("//tex/metal.png")),
                  Node(5, "NORMAL_MAP", {"Color", "Strength"}, NoImage),
                  Node(6, "NORMAL_MAP", {"Color", "Strength"}, NoImage),
                  Node(7, "TEX_IMAGE", {"Vector"}, FileImage("//tex/normal.png")) >>,
     links |-> { Link(Sock(3, "BSDF"), Sock(1, "Surface")),
                 Link(Sock(4, "Color"), Sock(3, "Metallic")),
                 Link(Sock(7, "Color"), Sock(6, "Color")),
                 Link(Sock(6, "Normal"), Sock(3, "Normal")) }]

\* an output node fed by a BSDF none of whose inputs is connected
TreeBare ==
    [nodes |-> << Node(1, "OUTPUT_MATERIAL", {"Surface"}, NoImage),
                  Node(2, "BSDF_PRINCIPLED", BsdfInputs4, NoImage) >>,
     links |-> { Link(Sock(2, "BSDF"), Sock(1, "Surface")) }]

\* what a material can be: use_nodes and its node tree
MaterialConfigs ==
    { [use_nodes |-> FALSE, tree |-> EmptyTree],
      [use_nodes |-> TRUE, tree |-> EmptyTree],
      [use_nodes |-> TRUE, tree |-> TreeStd],
      [use_nodes |-> TRUE, tree |-> TreeNoOutput],
      [use_nodes |-> TRUE, tree |-> TreeSurfaceFree],
      [use_nodes |-> TRUE, tree |-> TreeTwoBsdf],
      [use_nodes |-> TRUE, tree |-> TreeBare] }

\* the object's material slots: every list of at most MaxSlots entries
SlotLists == UNION {[1..n -> Mats \cup {NoMat}] : n \in 0..MaxSlots}

\* bake_width / bake_height: IntProperty with no min, so any integer
Dims == {-1, 0, 2}

\* what invoke() can find: every width and height with a folder and an object,
\* and a good size with the folder or the object missing
InvokeInputs ==
    {[w |-> w, h |-> h, isdir |-> TRUE, object |-> "Hair"] : w \in Dims, h \in Dims}
    \cup {[w |-> 2, h |-> 2, isdir |-> FALSE, object |-> "Hair"],
          [w |-> 2, h |-> 2, isdir |-> TRUE, object |-> ""],
          [w |-> 0, h |-> 2, isdir |-> FALSE, object |-> ""]}

(* ---------------------------------------------------------------------- *)
(* invoke(): the channel sequence                                          *)
(* ---------------------------------------------------------------------- *)

\* self.bake_sequence: (map_name, bake_type) in the order baked
bake_sequence ==
    << <<"base_color", "DIFFUSE">>,
       <<"roughness", "ROUGHNESS">>,
       <<"specular", "GLOSSY">>,
       <<"metallic", "GLOSSY">>,
       <<"alpha", "DIFFUSE">>,
       <<"normal", "NORMAL">> >>

(* ---------------------------------------------------------------------- *)
(* modal(), SETUP: the source socket and the emission rig                  *)
(* ---------------------------------------------------------------------- *)

\* _get_bsdf_socket(node, names): the first name the node has an input for
RECURSIVE GetBsdfSocket(_, _)
GetBsdfSocket(node, names) ==
    IF names = <<>> THEN NoSock
    ELSE IF Head(names) \in node.inputs THEN Sock(node.name, Head(names))
    ELSE GetBsdfSocket(node, Tail(names))

\* the BSDF input the channel is read from; the normal channel has none here
BsdfSocketFor(node, map_name) ==
    CASE map_name = "base_color" -> Sock(node.name, "Base Color")
      [] map_name = "alpha"      -> Sock(node.name, "Alpha")
      [] map_name = "roughness"  -> Sock(node.name, "Roughness")
      [] map_name = "specular"   -> GetBsdfSocket(node, <<"Specular IOR Level", "Specular">>)
      [] map_name = "metallic"   -> Sock(node.name, "Metallic")
      [] OTHER                   -> NoSock

\* "Identify source socket": the loop over nt.nodes from node i on.  Every
\* pass that does not break leaves source_socket None, so each node is looked
\* at afresh; the loop breaks at the first node whose socket is linked.
RECURSIVE IdentifySource(_, _, _)
IdentifySource(nt, map_name, i) ==
    IF i > Len(nt.nodes) THEN NoSock
    ELSE LET node == nt.nodes[i]
             s1 == IF node.type = "BSDF_PRINCIPLED"
                   THEN BsdfSocketFor(node, map_name) ELSE NoSock
             s2 == IF /\ map_name = "normal"
                      /\ node.type = "NORMAL_MAP"
                      /\ IsLinked(nt, Sock(node.name, "Color"))
                   THEN Sock(node.name, "Color") ELSE s1
         IN IF s2 # NoSock /\ IsLinked(nt, s2)
            THEN Links0(nt, s2).from
            ELSE IdentifySource(nt, map_name, i + 1)

\* next(n for n in nt.nodes if n.type == 'OUTPUT_MATERIAL'), 0 for None
OutputNode(nt) ==
    LET idx == {i \in 1..Len(nt.nodes) : nt.nodes[i].type = "OUTPUT_MATERIAL"}
    IN IF idx = {} THEN 0
       ELSE nt.nodes[CHOOSE i \in idx : \A j \in idx : i <= j].name

\* variant: every channel gets (0, 0, 0, 1)
DefVal_AllBlack(map_name) == <<0, 0, 0, 2>>
\* def_val: the emission colour when nothing is linked, in halves
DefVal(map_name) ==
    CASE map_name = "roughness" -> <<1, 1, 1, 2>>
      [] map_name = "alpha"     -> <<2, 2, 2, 2>>
      [] map_name = "normal"    -> <<1, 1, 2, 2>>
      [] OTHER                  -> <<0, 0, 0, 2>>

SetColor(nt, id, c) ==
    [nt EXCEPT !.nodes = [i \in 1..Len(@) |->
        IF @[i].name = id THEN [@[i] EXCEPT !.color = c] ELSE @[i]]]

NoSetup ==
    [mat |-> NoMat, map_name |-> "", bake_tex |-> 0, emission |-> 0,
     img |-> NoImage, out_node |-> 0, link_surface |-> NoLink,
     orig_link |-> NoSock, surf_input |-> NoSock]

\* The SETUP phase on tree nt for material mat and channel map_name with the
\* new image img: the tree as rewired, and self.current_setup.
SetupRig(nt, mat, map_name, img) ==
    LET bake_tex == FreshId(nt)
        nt1 == NodesNew(nt, "TEX_IMAGE", {"Vector"}, img)
        out_node == OutputNode(nt1)
        source_socket == IdentifySource(nt1, map_name, 1)
        emission == FreshId(nt1)
        nt2 == NodesNew(nt1, "EMISSION", {"Color", "Strength"}, NoImage)
        surf_input == Sock(out_node, "Surface")
        linked == IsLinked(nt2, surf_input)
        orig_link == IF linked THEN Links0(nt2, surf_input).from ELSE NoSock
        nt3 == IF linked THEN LinksRemove(nt2, Links0(nt2, surf_input)) ELSE nt2
        link_surface == Link(Sock(emission, "Emission"), surf_input)
        nt4 == LinksNew(nt3, link_surface.from, link_surface.to)
        nt5 == IF source_socket # NoSock
               THEN LinksNew(nt4, source_socket, Sock(emission, "Color"))
               ELSE SetColor(nt4, emission, DefVal(map_name))
    IN IF out_node = 0
       THEN [tree |-> nt1,
             setup |-> [mat |-> mat, map_name |-> map_name, bake_tex |-> bake_tex,
                        emission |-> 0, img |-> img, out_node |-> 0,
                        link_surface |-> NoLink, orig_link |-> NoSock,
                        surf_input |-> NoSock]]
       ELSE [tree |-> nt5,
             setup |-> [mat |-> mat, map_name |-> map_name, bake_tex |-> bake_tex,
                        emission |-> emission, img |-> img, out_node |-> out_node,
                        link_surface |-> link_surface, orig_link |-> orig_link,
                        surf_input |-> surf_input]]

(* ---------------------------------------------------------------------- *)
(* modal(), BAKE: the fast-path source and the node cleanup                *)
(* ---------------------------------------------------------------------- *)

\* "Find the source image node": the FIRST node of the target type decides
\* (the break is taken whether or not its socket is linked); "" for None
CopySourcePath(nt, map_name) ==
    LET target == IF map_name = "normal" THEN "NORMAL_MAP" ELSE "BSDF_PRINCIPLED"
        idx == {i \in 1..Len(nt.nodes) : nt.nodes[i].type = target}
    IN IF idx = {} THEN ""
       ELSE LET node == nt.nodes[CHOOSE i \in idx : \A j \in idx : i <= j]
                socket == CASE map_name = "normal" -> Sock(node.name, "Color")
                            [] map_name = "specular" ->
                                 GetBsdfSocket(node, <<"Specular IOR Level", "Specular">>)
                            [] map_name = "metallic" -> Sock(node.name, "Metallic")
                            [] OTHER -> NoSock
            IN IF socket # NoSock /\ IsLinked(nt, socket)
               THEN LET link_node == NodeById(nt, Links0(nt, socket).from.node)
                    IN IF link_node.type = "TEX_IMAGE" /\ link_node.image # NoImage
                       THEN link_node.image.filepath ELSE ""
               ELSE ""

\* the copy is attempted: channel in the set, a path found, the file exists
CopyAttempted(nt, map_name) ==
    /\ map_name \in {"normal", "specular", "metallic"}
    /\ CopySourcePath(nt, map_name) # ""
    /\ PathExists(CopySourcePath(nt, map_name))

\* file_copied
FileCopied(nt, map_name) ==
    CopyAttempted(nt, map_name) /\ CopySucceeds(CopySourcePath(nt, map_name))

\* variant: the original Surface link is not put back
CleanupNodes_NoRelink(nt, s) ==
    LET r1 == IF s.link_surface # NoLink THEN LinksRemove(nt, s.link_surface) ELSE nt
        r3 == IF s.emission # 0 THEN NodesRemove(r1, s.emission) ELSE r1
    IN NodesRemove(r3, s.bake_tex)

\* "Cleanup Nodes": the tree after the BAKE phase has undone setup s
CleanupNodes(nt, s) ==
    LET r1 == IF s.link_surface # NoLink THEN LinksRemove(nt, s.link_surface) ELSE nt
        r2 == IF s.orig_link # NoSock /\ s.surf_input # NoSock
              THEN LinksNew(r1, s.orig_link, s.surf_input) ELSE r1
        r3 == IF s.emission # 0 THEN NodesRemove(r2, s.emission) ELSE r2
    IN NodesRemove(r3, s.bake_tex)

(* ---------------------------------------------------------------------- *)
(* HAIRCARD_OT_SwapTextures: strings are sequences of characters, so that  *)
(* str.lower() and the substring test are computed, not assumed.           *)
(* ---------------------------------------------------------------------- *)

\* most entries os.listdir returns for the terminal directory
MaxListing == 3

\* str.lower() on ASCII letters
UpperToLower ==
    [A |-> "a", B |-> "b", C |-> "c", D |-> "d", E |-> "e", F |-> "f", G |->
    "g", H |-> "h", I |-> "i", J |-> "j", K |-> "k", L |-> "l", M |-> "m", N
    |-> "n", O |-> "o", P |-> "p", Q |-> "q", R |-> "r", S |-> "s", T |-> "t",
    U |-> "u", V |-> "v", W |-> "w", X |-> "x", Y |-> "y", Z |-> "z"]
LowerChar(c) == IF c \in DOMAIN UpperToLower THEN UpperToLower[c] ELSE c
Lower(str) == [i \in 1..Len(str) |-> LowerChar(str[i])]

\* "a in b" for two strings
Contains(a, b) ==
    \E i \in 0..(Len(b) - Len(a)) : SubSeq(b, i + 1, i + Len(a)) = a

\* the keys of "expected" in the order the dict keeps them
ChannelOrder == <<"Diffuse", "Roughness", "Specular", "Normal", "Depth", "Startmask">>
Channels == {ChannelOrder[i] : i \in 1..Len(ChannelOrder)}
ChannelChars ==
    [Diffuse |-> <<"D", "i", "f", "f", "u", "s", "e">>,
     Roughness |-> <<"R", "o", "u", "g", "h", "n", "e", "s", "s">>,
     Specular |-> <<"S", "p", "e", "c", "u", "l", "a", "r">>,
     Normal |-> <<"N", "o", "r", "m", "a", "l">>,
     Depth |-> <<"D", "e", "p", "t", "h">>,
     Startmask |-> <<"S", "t", "a", "r", "t", "m", "a", "s", "k">>]

\* None for a file path
NoFile == <<>>
\* {t: None for t in [...]}
ExpectedNone == [k \in Channels |-> NoFile]

\* file names the terminal directory can hold
NameHairDiffuse ==
    <<"H", "a", "i", "r", "_", "D", "i", "f", "f", "u", "s", "e", ".", "p",
    "n", "g">>
NameHairDiffuse2k ==
    <<"h", "a", "i", "r", "_", "d", "i", "f", "f", "u", "s", "e", "_", "2",
    "k", ".", "P", "N", "G">>
NameHairNormal ==
    <<"H", "a", "i", "r", "_", "N", "O", "R", "M", "A", "L", ".", "p", "n",
    "g">>
NameDiffuseRoughness ==
    <<"D", "i", "f", "f", "u", "s", "e", "_", "R", "o", "u", "g", "h", "n",
    "e", "s", "s", ".", "p", "n", "g">>
NameHairRoughness ==
    <<"H", "a", "i", "r", "_", "R", "o", "u", "g", "h", "n", "e", "s", "s",
    ".", "p", "n", "g">>
NameHairDepth ==
    <<"H", "a", "i", "r", "_", "D", "e", "p", "t", "h", ".", "p", "n", "g">>
NameStartmaskLink ==
    <<"S", "t", "a", "r", "t", "m", "a", "s", "k", ".", "l", "n", "k">>
NameNotes ==
    <<"n", "o", "t", "e", "s", ".", "t", "x", "t">>
\* an image an earlier swap left in a slot
NameOld == <<"o", "l", "d", ".", "p", "n", "g">>

\* what is behind a name: an image file with its pixel size, a file that
\* cannot be read, a text file, or a link whose target is gone
FolderFiles ==
    {[name |-> NameHairDiffuse, kind |-> "image", size |-> <<4, 4>>],
     [name |-> NameHairDiffuse2k, kind |-> "image", size |-> <<8, 2>>],
     [name |-> NameHairNormal, kind |-> "image", size |-> <<4, 4>>],
     [name |-> NameDiffuseRoughness, kind |-> "image", size |-> <<2, 2>>],
     [name |-> NameHairRoughness, kind |-> "image", size |-> <<4, 4>>],
     [name |-> NameHairDepth, kind |-> "unreadable", size |-> <<0, 0>>],
     [name |-> NameStartmaskLink, kind |-> "dangling", size |-> <<0, 0>>],
     [name |-> NameNotes, kind |-> "text", size |-> <<0, 0>>]}
FileNames == {f.name : f \in FolderFiles}
FileAt(fp) == CHOOSE f \in FolderFiles : f.name = fp

\* os.listdir(folder): the names in any order, each once
Listings ==
    UNION {{ls \in [1..n -> FileNames] :
               \A i \in 1..n : \A j \in 1..n : i # j => ls[i] # ls[j]} :
           n \in 0..MaxListing}

\* os.path.exists(fp) for a name os.listdir returned
EntryExists(fp) == FileAt(fp).kind # "dangling"
\* variant: every file loads
LoadRaises_Never(fp) == FALSE
\* bpy.data.images.load(fp, check_existing=True) raises RuntimeError for a
\* file it cannot read
LoadRaises(fp) == FileAt(fp).kind # "image"
\* node.image.size
ImageSize(fp) == FileAt(fp).size

\* the inner loop "for k in expected: if k.lower() in f.lower(): ...; break":
\* the first key, from position i on, that f contains; "" when there is none
RECURSIVE MatchKeyword(_, _)
MatchKeyword(f, i) ==
    IF i > Len(ChannelOrder) THEN ""
    ELSE IF Contains(Lower(ChannelChars[ChannelOrder[i]]), Lower(f)) THEN ChannelOrder[i]
    ELSE MatchKeyword(f, i + 1)

\* the outer loop "for f in os.listdir(folder)": expected[k] is assigned for
\* every entry that matches, whatever it held
RECURSIVE ScanListing(_, _)
ScanListing(expected, ls) ==
    IF ls = <<>> THEN expected
    ELSE LET k == MatchKeyword(Head(ls), 1)
         IN  ScanListing(IF k = "" THEN expected ELSE [expected EXCEPT ![k] = Head(ls)],
                         Tail(ls))

\* a node of the material seen by the swap: type, label and image (a path)
SlotNode(type, label, image) == [type |-> type, label |-> label, image |-> image]
SlotsFull ==
    << SlotNode("TEX_IMAGE", "Depth", NoFile),
       SlotNode("TEX_IMAGE", "Diffuse", NoFile),
       SlotNode("TEX_IMAGE", "Roughness", NameOld),
       SlotNode("TEX_IMAGE", "Startmask", NoFile),
       SlotNode("TEX_IMAGE", "Mask", NoFile),
       SlotNode("BSDF_PRINCIPLED", "Normal", NoFile) >>
SlotsTwoDiffuse ==
    << SlotNode("TEX_IMAGE", "Diffuse", NameOld),
       SlotNode("TEX_IMAGE", "Normal", NoFile),
       SlotNode("TEX_IMAGE", "Diffuse", NoFile) >>
SlotTemplates == {SlotsFull, SlotsTwoDiffuse}

\* the loop over mat.node_tree.nodes from node i on; st is the scene as the
\* loop has left it so far and what it has counted and reported
RECURSIVE SwapSlots(_, _, _)
SwapSlots(st, expected, i) ==
    IF i > Len(st.nodes) THEN st
    ELSE LET node == st.nodes[i]
             fp == IF node.label \in Channels THEN expected[node.label] ELSE NoFile
         IN  IF ~(node.type = "TEX_IMAGE" /\ node.label \in Channels) THEN
                 SwapSlots(st, expected, i + 1)
             ELSE IF ~(fp # NoFile /\ EntryExists(fp)) THEN
                 SwapSlots(st, expected, i + 1)
             ELSE IF LoadRaises(fp) THEN
                 SwapSlots([st EXCEPT !.reports = Append(@, <<"WARNING", "load", fp>>)],
                           expected, i + 1)
             ELSE
                 SwapSlots(
                     [nodes |-> [st.nodes EXCEPT ![i].image = fp],
                      colorspace |->
                          [p \in DOMAIN st.colorspace \cup {fp} |->
                              IF p = fp
                              THEN (IF node.label = "Diffuse" THEN "sRGB" ELSE "Non-Color")
                              ELSE st.colorspace[p]],
                      cnt |-> st.cnt + 1,
                      width |-> IF node.label = "Diffuse" THEN ImageSize(fp)[1] ELSE st.width,
                      height |-> IF node.label = "Diffuse" THEN ImageSize(fp)[2] ELSE st.height,
                      reports |-> IF node.label = "Diffuse"
                                  THEN Append(st.reports, <<"INFO", "size", fp>>)
                                  ELSE st.reports],
                     expected, i + 1)

\* the fields of an operator instance that was never invoked
NoRun ==
    [status |-> "none", obj |-> "", mesh_eval |-> <<>>, temp_obj |-> <<>>,
     prev_engine |-> "", step |-> 0, bake_phase |-> "", total_steps |-> 0,
     timer |-> FALSE, handler |-> FALSE]

\* f"BakeObj_{self.obj.name}": the name of the transient object
TempName(o) == IF o = "Hair" THEN "BakeObj_Hair" ELSE "BakeObj_"

(* ---------------------------------------------------------------------- *)
(* State                                                                   *)
(* ---------------------------------------------------------------------- *)

VARIABLES
    \* the scene and the disk
    ctx_object,     \* context.object: the selected object's name, "" for None
    bake_width,     \* props.bake_width
    bake_height,    \* props.bake_height
    bake_progress,  \* props.bake_progress, a fraction [num, den]
    out_isdir,      \* os.path.isdir(bpy.path.abspath(props.bake_path))
    slots,          \* the object's material slots
    use_nodes,      \* mat.use_nodes, per material
    node_tree,      \* mat.node_tree, per material
    images,         \* bpy.data.images: the images made by images.new
    bpy_objects,    \* bpy.data.objects: the transient bake objects
    bpy_meshes,     \* bpy.data.meshes: the transient bake meshes
    engine,         \* scene.render.engine
    samples,        \* scene.cycles.samples
    bake_flags,     \* scene.render.bake.use_pass_direct / indirect / color
    dirs,           \* directories made under the output folder
    files,          \* output files: [path, bytes]
    timer,          \* the window manager's event timer is registered
    handler,        \* the operator is a registered modal handler
    \* the operator instance (self)
    step, total_steps, bake_phase, current_setup,
    obj, mesh_eval, temp_obj, prev_engine, base_dir, materials,
    \* what an observer of the run records
    status,         \* "idle", "aborted", "running", "finished", "cancelled", "error"
    result,         \* what the last call of invoke() / modal() returned
    ticks,          \* TIMER events handled since the run started
    writes,         \* which step wrote which output path, and how
    tree0,          \* every material's node tree when the run started
    render0,        \* engine, sample count and bake flags when the run started
    pre_tree,       \* the step's material's node tree before its SETUP
    \* the texture swap
    folder_exists,  \* os.path.exists(folder) for the selected variant
    listing,        \* os.listdir(folder)
    material,       \* props.material, "" for None
    slot_nodes,     \* props.material.node_tree.nodes: type, label, image
    colorspace,     \* image.colorspace_settings.name, per loaded image path
    expected,       \* the last swap's channel -> file path, NoFile for None
    cnt,            \* the last swap's count of swapped textures
    swap_result,    \* what the last call of execute() returned
    reports,        \* what the last call of execute() reported
    \* a second instance of the bake operator
    second          \* its fields and handler, NoRun while it was never invoked

swapVars == <<folder_exists, listing, material, slot_nodes, colorspace, expected, cnt,
             swap_result, reports>>
envVars == <<ctx_object, bake_width, bake_height, out_isdir, slots, use_nodes, tree0,
            render0, swapVars, second>>
selfVars == <<obj, mesh_eval, temp_obj, prev_engine, base_dir, materials, total_steps>>
diskVars == <<dirs, files, writes>>
renderVars == <<engine, samples, bake_flags>>
dataVars == <<bpy_objects, bpy_meshes>>

vars == <<ctx_object, bake_width, bake_height, bake_progress, out_isdir, slots,
          use_nodes, node_tree, images, bpy_objects, bpy_meshes, engine, samples,
          bake_flags, dirs, files, timer, handler, step, total_steps, bake_phase,
          current_setup, obj, mesh_eval, temp_obj, prev_engine, base_dir,
          materials, status, result, ticks, writes, tree0, render0, pre_tree,
          folder_exists, listing, material, slot_nodes, colorspace, expected, cnt,
          swap_result, reports, second>>

\* scene.cycles.samples set by invoke()
BakeSamples == 16

Frac(n, d) == [num |-> n, den |-> d]
\* the FloatProperty's default, and what _cleanup() resets it to
ZeroProgress == Frac(0, 1)
FracLeq(p, q) == p.num * q.den <= q.num * p.den
FracEq(p, q) == p.num * q.den = q.num * p.den

Max(a, b) == IF a >= b THEN a ELSE b

\* variant: a sequence one channel short (metallic was added last)
TotalSteps_FiveChannels(mats) == Len(mats) * (Len(bake_sequence) - 1)
\* self.total_steps = len(self.materials) * len(self.bake_sequence)
TotalSteps(mats) == Len(mats) * Len(bake_sequence)

\* variant: the step is counted twice
NextStep_Double(st) == st + 2
\* self.step += 1
NextStep(st) == st + 1

\* variant: the fraction still to do
Progress_Remaining(st, total) == Frac(total - st, Max(total, 1))
\* props.bake_progress = self.step / max(self.total_steps, 1)
Progress(st, total) == Frac(st, Max(total, 1))

Init ==
    /\ \E in \in InvokeInputs :
          /\ ctx_object = in.object
          /\ bake_width = in.w
          /\ bake_height = in.h
          /\ out_isdir = in.isdir
    /\ bake_progress = ZeroProgress
    /\ slots \in SlotLists
    /\ \E cfg \in [Mats -> MaterialConfigs] :
          /\ use_nodes = [m \in Mats |-> cfg[m].use_nodes]
          /\ node_tree = [m \in Mats |-> cfg[m].tree]
          /\ tree0 = [m \in Mats |-> cfg[m].tree]
    /\ images = {}
    /\ bpy_objects = {}
    /\ bpy_meshes = {}
    /\ engine \in {"BLENDER_EEVEE_NEXT", "BLENDER_WORKBENCH"}
    /\ samples = 128
    /\ bake_flags = [use_pass_direct |-> TRUE, use_pass_indirect |-> TRUE,
                     use_pass_color |-> TRUE]
    /\ render0 = [engine |-> engine, samples |-> samples, bake_flags |-> bake_flags]
    /\ dirs = {}
    /\ files = {}
    /\ timer = FALSE
    /\ handler = FALSE
    /\ step = 0
    /\ total_steps = 0
    /\ bake_phase = "SETUP"
    /\ current_setup = NoSetup
    /\ obj = ""
    /\ mesh_eval = <<>>
    /\ temp_obj = <<>>
    /\ prev_engine = ""
    /\ base_dir = <<>>
    /\ materials = <<>>
    /\ status = "idle"
    /\ result = ""
    /\ ticks = 0
    /\ writes = {}
    /\ pre_tree = EmptyTree
    /\ folder_exists = FALSE
    /\ listing = <<>>
    /\ material = NoMat
    /\ slot_nodes = <<>>
    /\ colorspace = <<>>
    /\ expected = ExpectedNone
    /\ cnt = 0
    /\ swap_result = ""
    /\ reports = <<>>
    /\ second = NoRun

(* ---------------------------------------------------------------------- *)
(* invoke()                                                                *)
(* ---------------------------------------------------------------------- *)

\* "if not (w and h) or not os.path.isdir(out) or not self.obj"
PrerequisitesMissing(w, h, isdir, o) ==
    \/ ~(w # 0 /\ h # 0)
    \/ ~isdir
    \/ o = ""

\* invoke() returns CANCELLED: only fields of self were assigned
InvokeAbort ==
    /\ status = "idle"
    /\ PrerequisitesMissing(bake_width, bake_height, out_isdir, ctx_object)
    /\ step' = 0
    /\ bake_phase' = "SETUP"
    /\ current_setup' = NoSetup
    /\ obj' = ctx_object
    /\ status' = "aborted"
    /\ result' = "CANCELLED"
    /\ UNCHANGED <<envVars, diskVars, renderVars, dataVars, bake_progress, node_tree,
                   images, timer, handler, mesh_eval, temp_obj, prev_engine, base_dir,
                   materials, total_steps, ticks, pre_tree>>

\* invoke() returns RUNNING_MODAL
Invoke ==
    /\ status = "idle"
    /\ ~PrerequisitesMissing(bake_width, bake_height, out_isdir, ctx_object)
    /\ step' = 0
    /\ bake_phase' = "SETUP"
    /\ current_setup' = NoSetup
    /\ obj' = ctx_object
    /\ mesh_eval' = <<"Mesh", ctx_object>>
    /\ temp_obj' = <<"BakeObj", ctx_object>>
    /\ bpy_meshes' = bpy_meshes \cup {<<"Mesh", ctx_object>>}
    /\ bpy_objects' = bpy_objects \cup {<<"BakeObj", ctx_object>>}
    /\ prev_engine' = engine
    /\ engine' = "CYCLES"
    /\ samples' = BakeSamples
    /\ base_dir' = <<"out", ctx_object, "textures">>
    /\ dirs' = dirs \cup {<<"out", ctx_object, "textures">>}
    /\ materials' = slots
    /\ total_steps' = TotalSteps(slots)
    /\ timer' = TRUE
    /\ handler' = TRUE
    /\ status' = "running"
    /\ result' = "RUNNING_MODAL"
    /\ UNCHANGED <<envVars, bake_progress, node_tree, images, bake_flags, files,
                   writes, ticks, pre_tree>>

(* ---------------------------------------------------------------------- *)
(* _cleanup()                                                              *)
(* ---------------------------------------------------------------------- *)

\* variant: the progress bar is not reset
Cleanup_KeepProgress ==
    /\ timer' = FALSE
    /\ engine' = prev_engine
    /\ bpy_objects' = IF temp_obj # <<>> THEN bpy_objects \ {temp_obj} ELSE bpy_objects
    /\ bpy_meshes' = IF mesh_eval # <<>> THEN bpy_meshes \ {mesh_eval} ELSE bpy_meshes
    /\ bake_progress' = bake_progress

\* variant: the object is removed and its mesh is not
Cleanup_KeepMesh ==
    /\ timer' = FALSE
    /\ engine' = prev_engine
    /\ bpy_objects' = IF temp_obj # <<>> THEN bpy_objects \ {temp_obj} ELSE bpy_objects
    /\ bpy_meshes' = bpy_meshes
    /\ bake_progress' = ZeroProgress

\* variant: the engine is left as the run set it
Cleanup_KeepEngine ==
    /\ timer' = FALSE
    /\ engine' = engine
    /\ bpy_objects' = IF temp_obj # <<>> THEN bpy_objects \ {temp_obj} ELSE bpy_objects
    /\ bpy_meshes' = IF mesh_eval # <<>> THEN bpy_meshes \ {mesh_eval} ELSE bpy_meshes
    /\ bake_progress' = ZeroProgress

\* _cleanup(): self._timer is set whenever modal() runs
Cleanup ==
    /\ timer' = FALSE
    /\ engine' = prev_engine
    /\ bpy_objects' = IF temp_obj # <<>> THEN bpy_objects \ {temp_obj} ELSE bpy_objects
    /\ bpy_meshes' = IF mesh_eval # <<>> THEN bpy_meshes \ {mesh_eval} ELSE bpy_meshes
    /\ bake_progress' = ZeroProgress

(* ---------------------------------------------------------------------- *)
(* modal()                                                                 *)
(* ---------------------------------------------------------------------- *)

\* the step's material and channel
MatIndex(st) == st \div Len(bake_sequence)
\* variant: the channel index is one ahead
PassIndex_OffByOne(st) == (st + 1) % Len(bake_sequence)
PassIndex(st) == st % Len(bake_sequence)
StepMat(st) == materials[MatIndex(st) + 1]
\* variant: every step takes the first channel
StepMap_AlwaysFirst(st) == bake_sequence[1][1]
StepMap(st) == bake_sequence[PassIndex(st) + 1][1]

\* variant: only an empty slot is skipped
Unusable_OnlyEmpty(mat) == mat = NoMat
\* "if not mat or not mat.use_nodes"
Unusable(mat) == IF mat = NoMat THEN TRUE ELSE ~use_nodes[mat]

\* bpy.data.images.new(name, ...): the first free name
NewImage(mat, map_name) ==
    BakeImage(mat, map_name,
              CHOOSE n \in 0..Cardinality(images) :
                 /\ BakeImage(mat, map_name, n) \notin images
                 /\ \A k \in 0..(n - 1) : BakeImage(mat, map_name, k) \in images)

MatDir(mat) == Append(base_dir, mat)
\* variant: the file name leaves out the channel
OutPath_NoChannel(mat, map_name) == [dir |-> MatDir(mat), name |-> <<obj, mat>>]
OutPath(mat, map_name) == [dir |-> MatDir(mat), name |-> <<obj, mat, map_name>>]
WriteFile(fs, path, bytes) ==
    {f \in fs : f.path # path} \cup {[path |-> path, bytes |-> bytes]}

\* event ESC / PRESS
ModalCancel ==
    /\ handler
    /\ Cleanup
    /\ handler' = FALSE
    /\ status' = "cancelled"
    /\ result' = "CANCELLED"
    /\ UNCHANGED <<envVars, selfVars, diskVars, node_tree, images, samples, bake_flags,
                   step, bake_phase, current_setup, ticks, pre_tree>>

\* any event that is neither ESC / PRESS nor TIMER
ModalPassThrough ==
    /\ handler
    /\ result' = "PASS_THROUGH"
    /\ UNCHANGED <<envVars, selfVars, diskVars, renderVars, dataVars, bake_progress,
                   node_tree, images, timer, handler, step, bake_phase, current_setup,
                   status, ticks, pre_tree>>

\* TIMER in SETUP with every step done
ModalFinish ==
    /\ handler /\ timer
    /\ bake_phase = "SETUP"
    /\ step >= total_steps
    /\ Cleanup
    /\ handler' = FALSE
    /\ status' = "finished"
    /\ result' = "FINISHED"
    /\ ticks' = ticks + 1
    /\ UNCHANGED <<envVars, selfVars, diskVars, node_tree, images, samples, bake_flags,
                   step, bake_phase, current_setup, pre_tree>>

\* TIMER in SETUP, the slot is empty or the material has no node tree
ModalSkip ==
    /\ handler /\ timer
    /\ bake_phase = "SETUP"
    /\ step < total_steps
    /\ Unusable(StepMat(step))
    /\ step' = NextStep(step)
    /\ result' = "RUNNING_MODAL"
    /\ ticks' = ticks + 1
    /\ UNCHANGED <<envVars, selfVars, diskVars, renderVars, dataVars, bake_progress,
                   node_tree, images, timer, handler, bake_phase, current_setup,
                   status, pre_tree>>

\* TIMER in SETUP: bpy.data.images.new raises for a width or height below 1
\* (the arguments' range is 1..INT_MAX), and the exception leaves modal()
ModalSetupRaises ==
    /\ handler /\ timer
    /\ bake_phase = "SETUP"
    /\ step < total_steps
    /\ ~Unusable(StepMat(step))
    /\ (bake_width < 1 \/ bake_height < 1)
    /\ handler' = FALSE
    /\ status' = "error"
    /\ result' = "EXCEPTION"
    /\ ticks' = ticks + 1
    /\ UNCHANGED <<envVars, selfVars, diskVars, renderVars, dataVars, bake_progress,
                   node_tree, images, timer, step, bake_phase, current_setup, pre_tree>>

\* TIMER in SETUP: the step's graph is rewired
ModalSetup ==
    /\ handler /\ timer
    /\ bake_phase = "SETUP"
    /\ step < total_steps
    /\ ~Unusable(StepMat(step))
    /\ bake_width >= 1 /\ bake_height >= 1
    /\ LET mat == StepMat(step)
           img == NewImage(mat, StepMap(step))
           rig == SetupRig(node_tree[mat], mat, StepMap(step), img)
       IN /\ images' = images \cup {img}
          /\ node_tree' = [node_tree EXCEPT ![mat] = rig.tree]
          /\ current_setup' = rig.setup
          /\ pre_tree' = node_tree[mat]
    /\ bake_phase' = "BAKE"
    /\ result' = "RUNNING_MODAL"
    /\ ticks' = ticks + 1
    /\ UNCHANGED <<envVars, selfVars, diskVars, renderVars, dataVars, bake_progress,
                   timer, handler, step, status>>

\* the bake flags the render path sets
EmitFlags == [use_pass_direct |-> FALSE, use_pass_indirect |-> FALSE,
              use_pass_color |-> TRUE]

\* TIMER in BAKE: copy or render, save, undo the rig, next step
ModalBake ==
    /\ handler /\ timer
    /\ bake_phase = "BAKE"
    /\ LET s == current_setup
           nt == node_tree[s.mat]
           path == OutPath(s.mat, s.map_name)
           copied == FileCopied(nt, s.map_name)
       IN /\ dirs' = dirs \cup {MatDir(s.mat)}
          /\ files' = WriteFile(files, path,
                                IF copied THEN CopySourcePath(nt, s.map_name)
                                ELSE "<rendered>")
          /\ writes' = writes \cup {[step |-> step, path |-> path,
                                     via |-> IF copied THEN "copy" ELSE "render"]}
          /\ bake_flags' = IF copied THEN bake_flags ELSE EmitFlags
          /\ node_tree' = [node_tree EXCEPT ![s.mat] = CleanupNodes(nt, s)]
          /\ images' = images \ {s.img}
    /\ step' = NextStep(step)
    /\ bake_progress' = Progress(NextStep(step), total_steps)
    /\ bake_phase' = "SETUP"
    /\ result' = "RUNNING_MODAL"
    /\ ticks' = ticks + 1
    /\ UNCHANGED <<envVars, selfVars, dataVars, engine, samples, timer, handler,
                   current_setup, status, pre_tree>>

\* TIMER in BAKE on the render path: bpy.ops.object.bake (at = "bake") or
\* bpy.ops.image.save_as (at = "save") raises, and the exception leaves modal()
ModalBakeRaises ==
    /\ handler /\ timer
    /\ bake_phase = "BAKE"
    /\ ~FileCopied(node_tree[current_setup.mat], current_setup.map_name)
    /\ \E at \in {"bake", "save"} :
          dirs' = IF at = "save" \/ CopyAttempted(node_tree[current_setup.mat],
                                                   current_setup.map_name)
                  THEN dirs \cup {MatDir(current_setup.mat)} ELSE dirs
    /\ bake_flags' = EmitFlags
    /\ handler' = FALSE
    /\ status' = "error"
    /\ result' = "EXCEPTION"
    /\ ticks' = ticks + 1
    /\ UNCHANGED <<envVars, selfVars, dataVars, files, writes, engine, samples,
                   bake_progress, node_tree, images, timer, step, bake_phase,
                   current_setup, pre_tree>>

Next ==
    \/ InvokeAbort
    \/ Invoke
    \/ ModalCancel
    \/ ModalPassThrough
    \/ ModalFinish
    \/ ModalSkip
    \/ ModalSetupRaises
    \/ ModalSetup
    \/ ModalBake
    \/ ModalBakeRaises

Spec == Init /\ [][Next]_vars

(* ---------------------------------------------------------------------- *)
(* Properties                                                              *)
(* ---------------------------------------------------------------------- *)

RunEnded == status \in {"finished", "cancelled"}

\* every slot of the run holds a material with a node tree
AllUsable == \A i \in 1..Len(materials) : ~Unusable(materials[i])

\* the write of the step set up last
LastWrite == CHOOSE w \in writes : \A v \in writes : v.step <= w.step

\* C1: when a run has ended, by completion or by cancellation at any tick,
\* every material's node tree has the nodes and links it had when the run
\* started.
C1_GraphAsBeforeRun == RunEnded => node_tree = tree0

\* C2: whenever the operator is between steps (phase SETUP) after a step
\* that was set up, the node tree of that step's material is the tree it was
\* before that step's SETUP: same nodes in the same order, same links, so no
\* bake node, no emission node, and Surface connected as before; and the
\* step's image is gone.
C2_StepRestoresGraph ==
    (bake_phase = "SETUP" /\ current_setup # NoSetup) =>
        /\ node_tree[current_setup.mat] = pre_tree
        /\ current_setup.bake_tex \notin NodeIds(node_tree[current_setup.mat])
        /\ current_setup.orig_link # NoSock =>
              Link(current_setup.orig_link, current_setup.surf_input)
                 \in node_tree[current_setup.mat].links

\* C2 witness: a run that has done all the steps of two materials, the first
\* with its Surface connected, the second without an output node, some steps
\* by copy and some by render, some with a source and some without.
C2_Witness ==
    /\ status = "running" /\ bake_phase = "SETUP"
    /\ Len(materials) = 2 /\ step = total_steps
    /\ AllUsable
    /\ tree0[materials[1]] = TreeStd
    /\ OutputNode(tree0[materials[2]]) = 0
    /\ tree0[materials[2]].nodes # <<>>
    /\ \E w \in writes : w.via = "copy" /\ w.step < 6
    /\ \E w \in writes : w.via = "render" /\ w.step < 6
    /\ \E w \in writes : w.via = "copy" /\ w.step >= 6
    /\ \E w \in writes : w.via = "render" /\ w.step >= 6

\* C3 (as stated): when FINISHED is reported, total_steps = 6 * m,
\* step = total_steps and the progress fraction is 1.0.
C3_FinishedWithFullProgress ==
    status = "finished" =>
        /\ total_steps = 6 * Len(slots)
        /\ step = total_steps
        /\ FracEq(bake_progress, Frac(1, 1))

\* C3 (amended): from the start of a run total_steps = 6 * m for the m
\* material slots of the object, and when FINISHED is reported
\* step = total_steps and the progress fraction has been reset to 0.0.
C3_FinishedWithProgressReset ==
    /\ status \in {"running", "finished", "cancelled", "error"} =>
          /\ materials = slots
          /\ total_steps = 6 * Len(slots)
    /\ status = "finished" =>
          /\ step = total_steps
          /\ FracEq(bake_progress, Frac(0, 1))

\* C3 witness: a finished run over two slots, one usable and one skipped.
C3_Witness ==
    /\ status = "finished"
    /\ Len(materials) = 2
    /\ ~Unusable(materials[1])
    /\ Unusable(materials[2])
    /\ writes # {}

\* C4 (as stated): on every TIMER tick of a run, the completing one
\* included, the progress fraction does not decrease, and it is in [0, 1].
C4_ProgressNeverDecreases ==
    /\ [](FracLeq(Frac(0, 1), bake_progress) /\ FracLeq(bake_progress, Frac(1, 1)))
    /\ [][(status = "running" /\ ticks' = ticks + 1 /\ status' \in {"running", "finished"})
            => FracLeq(bake_progress, bake_progress')]_vars

\* C4 (amended): the progress fraction is always in [0, 1] and does not
\* decrease on any step after which the run is still running, that is on
\* every tick before the one that completes the run; the completing tick
\* resets it to 0.0.
C4_ProgressMonotoneWhileRunning ==
    /\ [](FracLeq(Frac(0, 1), bake_progress) /\ FracLeq(bake_progress, Frac(1, 1)))
    /\ [][status' = "running" => FracLeq(bake_progress, bake_progress')]_vars
    /\ [][status' = "finished" => FracEq(bake_progress', Frac(0, 1))]_vars

\* C4 witness: a running run whose progress has risen at least twice and is
\* not yet complete.
C4_Witness ==
    /\ status = "running"
    /\ bake_progress.num >= 2
    /\ bake_progress.num < total_steps
    /\ bake_phase = "BAKE"

\* C5 (as stated): with every material usable and no cancellation, after
\* exactly N = total_steps TIMER ticks (N >= 1) the run has reported FINISHED
\* and the transient object and mesh are removed.
C5_FinishedAfterNTicks ==
    (/\ status \in {"running", "finished"}
     /\ AllUsable
     /\ total_steps >= 1
     /\ ticks = total_steps) =>
        /\ status = "finished"
        /\ bpy_objects = {}
        /\ bpy_meshes = {}

\* C5 (amended): with every material usable, the step counter advances by
\* one on every second tick (a SETUP tick, then a BAKE tick): while the run
\* is running step = ticks div 2 and the phase is SETUP on even ticks, BAKE
\* on odd ones; FINISHED is reported on tick 2 * N + 1 and on no other, with
\* the transient object and mesh removed.
C5_FinishedAfterTwoTicksPerStep ==
    /\ (status = "running" /\ AllUsable) =>
          /\ step = ticks \div 2
          /\ bake_phase = (IF ticks % 2 = 0 THEN "SETUP" ELSE "BAKE")
          /\ ticks <= 2 * total_steps
    /\ (status = "finished" /\ AllUsable) =>
          /\ ticks = 2 * total_steps + 1
          /\ bpy_objects = {}
          /\ bpy_meshes = {}

\* C5 witness: two usable materials, FINISHED on the 25th tick.
C5_Witness ==
    /\ status = "finished"
    /\ AllUsable
    /\ Len(materials) = 2
    /\ total_steps = 12
    /\ ticks = 25

\* C6: when a run is cancelled at step k, CANCELLED is returned, the
\* progress fraction is 0.0, every output file was written by a step below k
\* in the BAKE phase of that step, and the cancelling call itself makes no
\* SETUP or BAKE transition: step, phase, node trees, images and files are
\* as they were.
C6_CancelWritesNothing ==
    /\ [](status = "cancelled" =>
            /\ result = "CANCELLED"
            /\ FracEq(bake_progress, Frac(0, 1))
            /\ \A w \in writes : w.step < step
            /\ \A f \in files : \E w \in writes : w.path = f.path)
    /\ [][status' = "cancelled" =>
            /\ status = "running"
            /\ UNCHANGED <<step, bake_phase, current_setup, node_tree, images,
                           files, writes, dirs, ticks>>]_vars
    /\ [][writes' # writes =>
            /\ bake_phase = "BAKE" /\ bake_phase' = "SETUP"
            /\ writes' = writes \cup {[step |-> step,
                                       path |-> OutPath(current_setup.mat,
                                                        current_setup.map_name),
                                       via |-> LastWrite'.via]}
            /\ step' = step + 1]_vars

\* C6 witness: cancellation at step 5 of 12, after that step's SETUP, with
\* the five earlier steps' files written.
C6_Witness ==
    /\ status = "cancelled"
    /\ total_steps = 12
    /\ step = 5
    /\ bake_phase = "BAKE"
    /\ Cardinality(writes) = 5
    /\ Cardinality(files) = 5

\* the upstream of the socket SETUP resolved for the step set up last is an
\* image node whose image's file exists on disk
SetupSourceIsFile ==
    LET src == IdentifySource(pre_tree, current_setup.map_name, 1)
    IN /\ src # NoSock
       /\ NodeById(pre_tree, src.node).type = "TEX_IMAGE"
       /\ NodeById(pre_tree, src.node).image # NoImage
       /\ PathExists(NodeById(pre_tree, src.node).image.filepath)

\* C7: a step that has been baked was done by copy if and only if its
\* channel is normal, specular or metallic and the upstream of the socket
\* SETUP resolved as its source is an image node whose file exists; and a
\* copied output file holds the source file's bytes.
C7_CopyIffSourceIsFile ==
    (bake_phase = "SETUP" /\ current_setup # NoSetup) =>
        /\ (LastWrite.via = "copy") <=>
              (/\ current_setup.map_name \in {"normal", "specular", "metallic"}
               /\ SetupSourceIsFile)
        /\ LastWrite.via = "copy" =>
              [path |-> LastWrite.path,
               bytes |-> NodeById(pre_tree,
                            IdentifySource(pre_tree, current_setup.map_name, 1).node
                         ).image.filepath] \in files

\* C8: the channel sequence is base_color, roughness, specular, metallic,
\* alpha, normal; the step being baked is for material index step div 6 and
\* channel index step mod 6, and so is every file written; step never goes
\* down and rises by one at a time, so the steps are handled in increasing
\* order and the six channels of a material before any of the next.
C8_StepOrder ==
    /\ [](/\ [i \in 1..Len(bake_sequence) |-> bake_sequence[i][1]] =
               <<"base_color", "roughness", "specular", "metallic", "alpha", "normal">>
          /\ (status = "running" /\ bake_phase = "BAKE") =>
               /\ step < total_steps
               /\ current_setup.mat = materials[(step \div 6) + 1]
               /\ current_setup.map_name =
                    <<"base_color", "roughness", "specular", "metallic", "alpha",
                      "normal">>[(step % 6) + 1]
          /\ \A w \in writes :
               /\ w.step < step
               /\ w.path.name[2] = materials[(w.step \div 6) + 1]
               /\ w.path.name[3] =
                    <<"base_color", "roughness", "specular", "metallic", "alpha",
                      "normal">>[(w.step % 6) + 1])
    /\ [][step' = step \/ (step' = step + 1 /\ bake_phase' = "SETUP")]_vars

\* C8 witness: the second material's roughness step (step 7) is set up after
\* all six channels of the first material were written.
C8_Witness ==
    /\ status = "running"
    /\ bake_phase = "BAKE"
    /\ step = 7
    /\ materials[1] # materials[2]
    /\ current_setup.mat = materials[2]
    /\ current_setup.map_name = "roughness"
    /\ {w.step : w \in writes} = 0..6

\* C9: once invoke() has been called with a width or height that is not
\* greater than 0, with no output folder or with no object selected, the run
\* is aborted and nothing was touched: no transient object or mesh, engine
\* and sample count as they were, no directory made, no timer, no handler.
C9_BadInputAborts ==
    (/\ status # "idle"
     /\ (bake_width <= 0 \/ bake_height <= 0 \/ ~out_isdir \/ ctx_object = "")) =>
        /\ status = "aborted"
        /\ bpy_objects = {} /\ bpy_meshes = {}
        /\ engine = render0.engine /\ samples = render0.samples
        /\ dirs = {}
        /\ ~timer /\ ~handler

\* C10: while a run is running there is exactly one transient object and one
\* transient mesh, the ones invoke() made; when the run has ended, by
\* completion or by cancellation in either phase, both are gone and the
\* timer and the modal handler are removed; and from then on nothing changes.
C10_TransientsRemoved ==
    /\ [](/\ status = "running" =>
               /\ bpy_objects = {temp_obj} /\ bpy_meshes = {mesh_eval}
               /\ timer /\ handler
          /\ RunEnded =>
               /\ bpy_objects = {} /\ bpy_meshes = {}
               /\ ~timer /\ ~handler)
    /\ [][RunEnded => UNCHANGED vars]_vars
    /\ [][(bpy_objects' # bpy_objects /\ bpy_objects' # {}) => status = "idle"]_vars

\* C10 witness: a run cancelled between a step's SETUP and its BAKE.
C10_Witness ==
    /\ status = "cancelled"
    /\ bake_phase = "BAKE"
    /\ step >= 1
    /\ temp_obj # <<>>
    /\ bpy_objects = {}

(* ---------------------------------------------------------------------- *)
(* HAIRCARD_OT_SwapTextures.execute(): one call is one step.  The bake     *)
(* operator is idle; the swap's inputs are the directory listing, the      *)
(* selected material and its nodes.                                        *)
(* ---------------------------------------------------------------------- *)

bakeVars == <<ctx_object, bake_progress, out_isdir, slots, use_nodes, node_tree, images,
             dataVars, renderVars, diskVars, timer, handler, step, bake_phase,
             current_setup, selfVars, status, result, ticks, tree0, render0, pre_tree,
             second>>

SwapInit ==
    /\ folder_exists \in BOOLEAN
    /\ listing \in (IF folder_exists THEN Listings ELSE {<<>>})
    /\ material \in {NoMat, "MatA"}
    /\ use_nodes \in [Mats -> BOOLEAN]
    /\ use_nodes["MatB"]
    /\ slot_nodes \in SlotTemplates
    /\ colorspace = [p \in {NameOld} |-> "sRGB"]
    /\ expected = ExpectedNone
    /\ cnt = 0
    /\ swap_result = ""
    /\ reports = <<>>
    /\ second = NoRun
    /\ bake_width = 2048 /\ bake_height = 2048
    /\ ctx_object = "Hair"
    /\ bake_progress = ZeroProgress
    /\ out_isdir = TRUE
    /\ slots = <<>>
    /\ node_tree = [m \in Mats |-> EmptyTree]
    /\ tree0 = node_tree
    /\ images = {} /\ bpy_objects = {} /\ bpy_meshes = {}
    /\ engine = "BLENDER_EEVEE_NEXT" /\ samples = 128
    /\ bake_flags = [use_pass_direct |-> TRUE, use_pass_indirect |-> TRUE,
                     use_pass_color |-> TRUE]
    /\ render0 = [engine |-> engine, samples |-> samples, bake_flags |-> bake_flags]
    /\ dirs = {} /\ files = {} /\ writes = {}
    /\ timer = FALSE /\ handler = FALSE
    /\ step = 0 /\ total_steps = 0 /\ bake_phase = "SETUP" /\ current_setup = NoSetup
    /\ obj = "" /\ mesh_eval = <<>> /\ temp_obj = <<>> /\ prev_engine = ""
    /\ base_dir = <<>> /\ materials = <<>>
    /\ status = "idle" /\ result = "" /\ ticks = 0
    /\ pre_tree = EmptyTree

\* variant: only a missing material is refused
NoValidMaterial_OnlyNone(mat) == mat = NoMat
\* "if not mat or not mat.use_nodes"
NoValidMaterial(mat) == IF mat = NoMat THEN TRUE ELSE ~use_nodes[mat]

\* "if not os.path.exists(folder)": reported, CANCELLED
SwapNoPath ==
    /\ ~folder_exists
    /\ expected' = ExpectedNone
    /\ cnt' = 0
    /\ reports' = << <<"ERROR", "path", NoFile>> >>
    /\ swap_result' = "CANCELLED"
    /\ UNCHANGED <<bakeVars, bake_width, bake_height, folder_exists, listing, material,
                   slot_nodes, colorspace>>

\* the folder is scanned, then "if not mat or not mat.use_nodes": reported,
\* CANCELLED
SwapNoMaterial ==
    /\ folder_exists
    /\ NoValidMaterial(material)
    /\ expected' = ScanListing(ExpectedNone, listing)
    /\ cnt' = 0
    /\ reports' = << <<"ERROR", "material", NoFile>> >>
    /\ swap_result' = "CANCELLED"
    /\ UNCHANGED <<bakeVars, bake_width, bake_height, folder_exists, listing, material,
                   slot_nodes, colorspace>>

\* the folder is scanned and the material's image slots are loaded
SwapTextures ==
    /\ folder_exists
    /\ ~NoValidMaterial(material)
    /\ LET exp == ScanListing(ExpectedNone, listing)
           st == SwapSlots([nodes |-> slot_nodes, colorspace |-> colorspace, cnt |-> 0,
                            width |-> bake_width, height |-> bake_height,
                            reports |-> <<>>], exp, 1)
       IN  /\ expected' = exp
           /\ slot_nodes' = st.nodes
           /\ colorspace' = st.colorspace
           /\ cnt' = st.cnt
           /\ bake_width' = st.width
           /\ bake_height' = st.height
           /\ reports' = Append(st.reports, <<"INFO", "swapped", NoFile>>)
    /\ swap_result' = "FINISHED"
    /\ UNCHANGED <<bakeVars, folder_exists, listing, material>>

SwapNext ==
    \/ SwapNoPath
    \/ SwapNoMaterial
    \/ SwapTextures

SwapSpec == SwapInit /\ [][SwapNext]_vars

(* ---------------------------------------------------------------------- *)
(* The bake operator invoked again while a run is active.  modal() returns *)
(* PASS_THROUGH for every event but ESC and the timer, so a click on the   *)
(* bake button reaches the panel and a second instance gets invoke().  The *)
(* newest handler sees an event first: while the second instance is a     *)
(* handler ESC goes to it and stops there.  Timer events, which both       *)
(* handlers would then receive, are followed only while one handler is     *)
(* registered.                                                             *)
(* ---------------------------------------------------------------------- *)

ReentryInit ==
    /\ Init
    /\ Len(slots) <= 1
    /\ engine = "BLENDER_EEVEE_NEXT"

\* invoke() of the second instance: context.object is the first run's
\* transient object, made active by its invoke(); its mesh copy carries the
\* same material slots
InvokeSecond ==
    /\ handler /\ status = "running"
    /\ second.status = "none"
    /\ ~PrerequisitesMissing(bake_width, bake_height, out_isdir, TempName(obj))
    /\ second' = [status |-> "running",
                  obj |-> TempName(obj),
                  mesh_eval |-> <<"Mesh", TempName(obj)>>,
                  temp_obj |-> <<"BakeObj", TempName(obj)>>,
                  prev_engine |-> engine,
                  step |-> 0,
                  bake_phase |-> "SETUP",
                  total_steps |-> TotalSteps(materials),
                  timer |-> TRUE,
                  handler |-> TRUE]
    /\ bpy_meshes' = bpy_meshes \cup {<<"Mesh", TempName(obj)>>}
    /\ bpy_objects' = bpy_objects \cup {<<"BakeObj", TempName(obj)>>}
    /\ engine' = "CYCLES"
    /\ samples' = BakeSamples
    /\ dirs' = dirs \cup {<<"out", TempName(obj), "textures">>}
    /\ result' = "RUNNING_MODAL"
    /\ UNCHANGED <<ctx_object, bake_width, bake_height, out_isdir, slots, use_nodes,
                   tree0, render0, swapVars, selfVars, bake_progress, node_tree, images,
                   bake_flags, files, writes, timer, handler, step, bake_phase,
                   current_setup, status, ticks, pre_tree>>

\* ESC / PRESS while the second instance is a handler: its modal() runs
\* _cleanup() on its own fields and returns CANCELLED
SecondCancel ==
    /\ second.handler
    /\ second' = [second EXCEPT !.status = "cancelled", !.timer = FALSE,
                                !.handler = FALSE]
    /\ engine' = second.prev_engine
    /\ bpy_objects' = bpy_objects \ {second.temp_obj}
    /\ bpy_meshes' = bpy_meshes \ {second.mesh_eval}
    /\ bake_progress' = ZeroProgress
    /\ result' = "CANCELLED"
    /\ UNCHANGED <<ctx_object, bake_width, bake_height, out_isdir, slots, use_nodes,
                   tree0, render0, swapVars, selfVars, diskVars, node_tree, images,
                   samples, bake_flags, timer, handler, step, bake_phase,
                   current_setup, status, ticks, pre_tree>>

ReentryNext ==
    \/ InvokeAbort
    \/ Invoke
    \/ InvokeSecond
    \/ SecondCancel
    \/ ~second.handler /\ ModalCancel
    \/ ~second.handler /\ ModalPassThrough
    \/ ~second.handler /\ ModalFinish
    \/ ~second.handler /\ ModalSkip
    \/ ~second.handler /\ ModalSetupRaises
    \/ ~second.handler /\ ModalSetup
    \/ ~second.handler /\ ModalBake
    \/ ~second.handler /\ ModalBakeRaises

ReentrySpec == ReentryInit /\ [][ReentryNext]_vars

(* ---------------------------------------------------------------------- *)
(* C11                                                                     *)
(* ---------------------------------------------------------------------- *)

\* C11: while a run is active the engine is CYCLES and the saved engine is
\* the one selected when the run started; after the run has ended by
\* completion or by cancellation, on whatever tick, the engine is again the
\* one selected when the run started.
C11_EngineRestored ==
    /\ status = "running" => (engine = "CYCLES" /\ prev_engine = render0.engine)
    /\ RunEnded => engine = render0.engine

\* a run cancelled in the middle of a step and a run that completed after
\* baking, both started from an engine other than CYCLES
C11_Witness ==
    /\ render0.engine = "BLENDER_WORKBENCH"
    /\ engine = "BLENDER_WORKBENCH"
    /\ \/ status = "cancelled" /\ bake_phase = "BAKE" /\ step >= 1
       \/ status = "finished" /\ writes # {}

(* ---------------------------------------------------------------------- *)
(* C12                                                                     *)
(* ---------------------------------------------------------------------- *)

\* C12: a failure raised by the bake call or by the image save in the BAKE
\* phase does not end the run: no run stops in the BAKE phase other than by
\* cancellation, and a run that has stopped on an error in that phase has
\* its node trees as before the step, the engine restored, and neither the
\* transient object nor the timer left.
C12_BakeFailureAbsorbed ==
    /\ bake_phase = "BAKE" => status \in {"running", "cancelled"}
    /\ (status = "error" /\ bake_phase = "BAKE") =>
          /\ \A m \in Mats :
                 current_setup # NoSetup /\ current_setup.mat = m =>
                     node_tree[m] = pre_tree
          /\ engine = render0.engine
          /\ ~timer
          /\ temp_obj \notin bpy_objects

(* ---------------------------------------------------------------------- *)
(* C13                                                                     *)
(* ---------------------------------------------------------------------- *)

\* the six channel names of the output files
ChannelNames == {"base_color", "roughness", "specular", "metallic", "normal", "alpha"}

\* the materials of the run that have a node tree in use
UsableMaterials ==
    {materials[i] : i \in {j \in 1..Len(materials) :
                              materials[j] # NoMat /\ use_nodes[materials[j]]}}

\* C13: after a run has completed, the files on disk are exactly one per
\* usable material and channel, at
\* <out>/<object>_textures/<material>/<object>_<material>_<channel>.png,
\* and there is none for an empty slot or a material without nodes.
C13_OneFilePerMaterialAndChannel ==
    status = "finished" =>
        /\ \A m \in UsableMaterials : \A ch \in ChannelNames :
              Cardinality({f \in files :
                  /\ f.path.dir = <<"out", ctx_object, "textures", m>>
                  /\ f.path.name = <<ctx_object, m, ch>>}) = 1
        /\ \A f \in files :
              /\ f.path.dir[4] \in UsableMaterials
              /\ f.path.name[2] \in UsableMaterials
        /\ Cardinality(files) = 6 * Cardinality(UsableMaterials)

\* a completed run over a usable material and a slot that was skipped
C13_Witness ==
    /\ status = "finished"
    /\ UsableMaterials # {}
    /\ \E i \in 1..Len(materials) :
          materials[i] = NoMat \/ materials[i] \notin UsableMaterials
    /\ files # {}

(* ---------------------------------------------------------------------- *)
(* C14                                                                     *)
(* ---------------------------------------------------------------------- *)

\* the last call of execute() got as far as scanning the folder
Scanned == swap_result = "FINISHED" \/ (swap_result = "CANCELLED" /\ folder_exists)

\* the positions in the listing of the entries whose name contains channel
\* k's keyword, letter case aside
MatchingEntries(k) ==
    {i \in 1..Len(listing) : Contains(Lower(ChannelChars[k]), Lower(listing[i]))}

\* C14: after a swap has scanned the terminal directory, each of the six
\* channels is resolved, independently of the others, to the first entry in
\* listing order whose name contains the channel's keyword letter case
\* aside, and to no file when no entry does.
C14_FirstMatchWins ==
    Scanned =>
        \A k \in Channels :
            IF MatchingEntries(k) = {} THEN expected[k] = NoFile
            ELSE expected[k] =
                   listing[CHOOSE i \in MatchingEntries(k) :
                              \A j \in MatchingEntries(k) : i <= j]

(* ---------------------------------------------------------------------- *)
(* C15                                                                     *)
(* ---------------------------------------------------------------------- *)

\* the slots of the material, before the call, that the call loads: image
\* texture nodes labelled with a channel whose resolved file is an image
LoadedSlots ==
    {i \in 1..Len(slot_nodes) :
        /\ slot_nodes[i].type = "TEX_IMAGE"
        /\ slot_nodes[i].label \in Channels
        /\ expected'[slot_nodes[i].label] # NoFile
        /\ FileAt(expected'[slot_nodes[i].label]).kind = "image"}

\* C15: a swap that finishes reports as its count the number of image
\* texture slots labelled with a channel whose resolved file loaded; each of
\* those slots holds that file's image, whether or not a slot before it
\* failed to load, and every other slot is as it was; the bake size is the
\* pixel size of the Diffuse file if a Diffuse slot loaded it and is
\* unchanged otherwise.
C15_SwappedCount ==
    [][swap_result' = "FINISHED" =>
         /\ cnt' = Cardinality(LoadedSlots)
         /\ Len(slot_nodes') = Len(slot_nodes)
         /\ \A i \in 1..Len(slot_nodes) :
               IF i \in LoadedSlots
               THEN slot_nodes'[i].image = expected'[slot_nodes[i].label]
               ELSE slot_nodes'[i] = slot_nodes[i]
         /\ IF \E i \in LoadedSlots : slot_nodes[i].label = "Diffuse"
            THEN /\ bake_width' = FileAt(expected'["Diffuse"]).size[1]
                 /\ bake_height' = FileAt(expected'["Diffuse"]).size[2]
            ELSE /\ bake_width' = bake_width
                 /\ bake_height' = bake_height]_vars

\* a finished swap whose first slot failed to load and was reported, that
\* loaded two later slots and took the bake size from the Diffuse image
C15_Witness ==
    /\ swap_result = "FINISHED"
    /\ cnt = 2
    /\ reports[1] = <<"WARNING", "load", NameHairDepth>>
    /\ slot_nodes[1].image = NoFile
    /\ slot_nodes[2].image = NameHairDiffuse2k
    /\ slot_nodes[3].image = NameHairRoughness
    /\ bake_width = 8 /\ bake_height = 2

(* ---------------------------------------------------------------------- *)
(* C16                                                                     *)
(* ---------------------------------------------------------------------- *)

\* C16: a swap called with no material, with a material that does not use
\* nodes, or with a terminal directory that does not exist returns
\* CANCELLED and leaves every slot's image, every image's colour space and
\* the bake size as they were.
C16_SwapAbortsWithoutEffect ==
    [][((IF material = NoMat THEN TRUE ELSE ~use_nodes[material]) \/ ~folder_exists) =>
         /\ swap_result' = "CANCELLED"
         /\ slot_nodes' = slot_nodes
         /\ colorspace' = colorspace
         /\ bake_width' = bake_width /\ bake_height' = bake_height]_vars

\* a cancelled swap on a material that does not use nodes, in a folder
\* with a Diffuse file, the material having a Diffuse slot
C16_Witness ==
    /\ swap_result = "CANCELLED"
    /\ folder_exists
    /\ material # NoMat /\ ~use_nodes[material]
    /\ expected["Diffuse"] # NoFile
    /\ \E i \in 1..Len(slot_nodes) : slot_nodes[i].label = "Diffuse"
    /\ bake_width = 2048

(* ---------------------------------------------------------------------- *)
(* C17                                                                     *)
(* ---------------------------------------------------------------------- *)

\* the step to set up next has an empty slot or a material without nodes
SkipCase ==
    /\ status = "running" /\ bake_phase = "SETUP" /\ step < total_steps
    /\ LET m == materials[(step \div 6) + 1]
       IN  IF m = NoMat THEN TRUE ELSE ~use_nodes[m]

\* every step from the current one on is a skip
OnlySkipsLeft ==
    /\ status = "running" /\ bake_phase = "SETUP"
    /\ \A i \in 1..Len(materials) :
          i > step \div 6 =>
             (IF materials[i] = NoMat THEN TRUE ELSE ~use_nodes[materials[i]])

\* C17: a timer tick on a step whose slot is empty or whose material has no
\* nodes raises the step by exactly one, stays in SETUP and keeps the run
\* running, and leaves images, node trees, directories and files as they
\* were with no error reported; when only such steps are left the next tick
\* is always a skip or the completion, so the run completes after one tick
\* per step left and one more.
C17_SkipStep ==
    /\ [][(SkipCase /\ ticks' = ticks + 1) =>
             /\ step' = step + 1
             /\ bake_phase' = "SETUP"
             /\ status' = "running" /\ result' = "RUNNING_MODAL"
             /\ images' = images
             /\ node_tree' = node_tree
             /\ files' = files /\ dirs' = dirs /\ writes' = writes
             /\ current_setup' = current_setup]_vars
    /\ [](OnlySkipsLeft => ENABLED (ModalSkip \/ ModalFinish))
    /\ [][(OnlySkipsLeft /\ ticks' = ticks + 1) =>
             (OnlySkipsLeft' \/ status' = "finished")]_vars

\* a run whose first material was baked and whose second slot was skipped
\* step by step has completed
C17_Witness ==
    /\ status = "finished"
    /\ Len(materials) = 2
    /\ materials[1] # NoMat /\ use_nodes[materials[1]]
    /\ (IF materials[2] = NoMat THEN TRUE ELSE ~use_nodes[materials[2]])
    /\ step = 12 /\ ticks = 19

(* ---------------------------------------------------------------------- *)
(* C18                                                                     *)
(* ---------------------------------------------------------------------- *)

\* C18: while a run is active, after every tick that has raised the step
\* counter, by a finished BAKE or by a skipped step, the progress is
\* step / total_steps (the run is then in SETUP with step >= 1).
C18_ProgressIsStepFraction ==
    (status = "running" /\ bake_phase = "SETUP" /\ step >= 1) =>
        FracEq(bake_progress, Frac(step, total_steps))

(* ---------------------------------------------------------------------- *)
(* C19                                                                     *)
(* ---------------------------------------------------------------------- *)

\* C19: after a run has ended by completion or by cancellation, the engine,
\* the sample count and the three bake pass flags have the values they had
\* before the run.
C19_RenderSettingsRestored ==
    RunEnded =>
        /\ engine = render0.engine
        /\ samples = render0.samples
        /\ bake_flags = render0.bake_flags

(* ---------------------------------------------------------------------- *)
(* C20                                                                     *)
(* ---------------------------------------------------------------------- *)

\* C20: within one run no two different steps write the same output path.
C20_WritesToFreshPaths ==
    \A w1 \in writes : \A w2 \in writes :
        w1.step # w2.step => w1.path # w2.path

(* ---------------------------------------------------------------------- *)
(* C21                                                                     *)
(* ---------------------------------------------------------------------- *)

\* C21: at any moment at most one image made by the run is in
\* bpy.data.images, and none is while the run is in SETUP or after it has
\* ended by completion or by cancellation in either phase.
C21_BakeImageFreed ==
    /\ Cardinality(images) <= 1
    /\ ((status = "running" /\ bake_phase = "SETUP") \/ RunEnded) => images = {}

(* ---------------------------------------------------------------------- *)
(* C22                                                                     *)
(* ---------------------------------------------------------------------- *)

\* the emission node of the step that is set up, and whether a link ends at
\* its Color input
RigEmission == NodeById(node_tree[current_setup.mat], current_setup.emission)
RigColorLinked ==
    IsLinked(node_tree[current_setup.mat], Sock(current_setup.emission, "Color"))

\* C22: after a SETUP that found an output node, if no source socket was
\* resolved for the channel the emission node has no link into Color and its
\* Color is (0,0,0,1) for base_color, specular and metallic, (0.5,0.5,0.5,1)
\* for roughness, (1,1,1,1) for alpha and (0.5,0.5,1,1) for normal; if a
\* source was resolved, Color is linked from it and no colour is set.
C22_EmissionDefaults ==
    (status = "running" /\ bake_phase = "BAKE" /\ current_setup.out_node # 0) =>
        LET src == IdentifySource(pre_tree, current_setup.map_name, 1)
            ch == current_setup.map_name
        IN  IF src = NoSock
            THEN /\ ~RigColorLinked
                 /\ ch \in {"base_color", "specular", "metallic"} =>
                        RigEmission.color = <<0, 0, 0, 2>>
                 /\ ch = "roughness" => RigEmission.color = <<1, 1, 1, 2>>
                 /\ ch = "alpha" => RigEmission.color = <<2, 2, 2, 2>>
                 /\ ch = "normal" => RigEmission.color = <<1, 1, 2, 2>>
            ELSE /\ Link(src, Sock(current_setup.emission, "Color"))
                        \in node_tree[current_setup.mat].links
                 /\ RigEmission.color = NoColor

\* a normal step set up on a tree with an output node and no source for the
\* normal: the emission node carries (0.5, 0.5, 1, 1) and no link
C22_Witness ==
    /\ status = "running" /\ bake_phase = "BAKE"
    /\ current_setup.out_node # 0
    /\ current_setup.map_name = "normal"
    /\ IdentifySource(pre_tree, "normal", 1) = NoSock
    /\ ~RigColorLinked
    /\ RigEmission.color = <<1, 1, 2, 2>>

(* ---------------------------------------------------------------------- *)
(* C24                                                                     *)
(* ---------------------------------------------------------------------- *)

\* the steps of the run whose material has nodes in use, and the others
UsableSteps ==
    6 * Cardinality({i \in 1..Len(materials) :
                        materials[i] # NoMat /\ use_nodes[materials[i]]})
SkippedSteps == 6 * Len(materials) - UsableSteps

\* C24: a started run that is not cancelled ends only by FINISHED, on tick
\* 2 * a + s + 1 with step = total_steps (a the steps with a usable
\* material, s the skipped ones); the step counter never goes down; an
\* event that is neither the timer nor ESC changes nothing but the value
\* returned.
C24_TerminatesWithFinished ==
    /\ [](status \in {"idle", "aborted", "running", "cancelled", "finished"})
    /\ [](status = "finished" =>
             (ticks = 2 * UsableSteps + SkippedSteps + 1 /\ step = total_steps))
    /\ [][step' >= step]_vars
    /\ [][result' = "PASS_THROUGH" =>
             UNCHANGED <<envVars, selfVars, diskVars, renderVars, dataVars, bake_progress,
                         node_tree, images, timer, handler, step, bake_phase,
                         current_setup, status, ticks, pre_tree>>]_vars

(* ---------------------------------------------------------------------- *)
(* C25                                                                     *)
(* ---------------------------------------------------------------------- *)

\* the channels in the order of the steps
ChannelSeq == <<"base_color", "roughness", "specular", "metallic", "alpha", "normal">>

\* the stored step context names nodes that are in the material's tree: the
\* bake image node with the step's image and, when a rig was made, the
\* emission node and its link into Surface
SetupHandlesPresent ==
    LET nt == node_tree[current_setup.mat]
    IN  /\ current_setup.bake_tex \in NodeIds(nt)
        /\ NodeById(nt, current_setup.bake_tex).type = "TEX_IMAGE"
        /\ NodeById(nt, current_setup.bake_tex).image = current_setup.img
        /\ current_setup.emission # 0 =>
              /\ current_setup.emission \in NodeIds(nt)
              /\ NodeById(nt, current_setup.emission).type = "EMISSION"
              /\ current_setup.link_surface \in nt.links
              /\ current_setup.out_node \in NodeIds(nt)

\* C25: always 0 <= step <= total_steps; a run starts in SETUP at step 0;
\* whenever the phase is BAKE, step < total_steps and the stored step
\* context names the material at index step div 6 and the channel at index
\* step mod 6 and the temporary nodes that are in that material's tree; BAKE
\* is entered only from SETUP, without a change of step.
C25_StepContext ==
    /\ [](0 <= step /\ step <= total_steps)
    /\ [][(status = "idle" /\ status' = "running") =>
             (step' = 0 /\ bake_phase' = "SETUP")]_vars
    /\ [](bake_phase = "BAKE" =>
             /\ step < total_steps
             /\ current_setup # NoSetup
             /\ current_setup.mat = materials[(step \div 6) + 1]
             /\ current_setup.map_name = ChannelSeq[(step % 6) + 1]
             /\ SetupHandlesPresent)
    /\ [][(bake_phase # "BAKE" /\ bake_phase' = "BAKE") =>
             (bake_phase = "SETUP" /\ step' = step /\ status = "running")]_vars

\* the second material's roughness step is set up, with an emission rig
C25_Witness ==
    /\ status = "running" /\ bake_phase = "BAKE"
    /\ step = 7
    /\ current_setup.mat = materials[2]
    /\ current_setup.map_name = "roughness"
    /\ current_setup.emission # 0

(* ---------------------------------------------------------------------- *)
(* C23                                                                     *)
(* ---------------------------------------------------------------------- *)

\* C23: at most one bake run is active at a time: while a run is running no
\* second instance of the operator is running, has a timer or is a modal
\* handler.
C23_SingleRun ==
    status = "running" =>
        (second.status # "running" /\ ~second.timer /\ ~second.handler)

====
